---- MODULE Spec2Model ----
(***************************************************************************)
(* Model of scoped_resource<DELETER, R...> (src/scoped_resource.h), the    *)
(* reference implementation of N3830, and of the block structure in which  *)
(* src/hello.cpp uses it.                                                   *)
(*                                                                         *)
(* Instances are numbered in creation order.  Each has the three members   *)
(* of the class (m_deleter, m_resource, m_bExecute).  Instances are         *)
(* automatic objects: they live in nested blocks and are destroyed in       *)
(* reverse order of construction when their block is left.  A deleter call *)
(* is recorded in `log`; a deleter may return normally or throw.  invoke() *)
(* has no handler, so an exception leaves invoke() before line 280 and      *)
(* reaches the caller; out of the (implicitly noexcept) destructor it ends *)
(* the program.                                                            *)
(*                                                                         *)
(* Spec is the life of one instance under every operation of the class,    *)
(* with deleters that may throw.  SpecScope is two instances in nested     *)
(* blocks, with moves.  Instances share no state (each holds its own       *)
(* deleter, tuple and flag), so what one instance does under its own       *)
(* operations is settled in Spec; SpecScope keeps the operations that      *)
(* disarm (release, release_all, a fire(once) that returns) and the        *)
(* destructors, which may throw.                                           *)
(*                                                                         *)
(* In Spec and SpecScope a deleter does not use the instance it belongs    *)
(* to, so invoke() is one step.  SpecReentrant takes invoke() statement by *)
(* statement (`frames`): the deleter is entered, runs, and returns or      *)
(* throws, and while it runs it may call operator() of its own instance.   *)
(***************************************************************************)
EXTENDS Integers, Sequences, FiniteSets

\* ---------------------------------------------------------------- bounds
MaxVal == 1
MaxDepth == 2
MaxFire == 1
MaxNest == 2

\* Two instances: the A and B, x and y, of the statements about pairs.
Inst == {1, 2}
Vals == 0..MaxVal

\* The binding shapes of hello.cpp: no resource (lines 8, 34), one
\* resource (the checked factory), two resources (line 26).
Arities == {0, 1, 2}

TuplesOf(k) == [1..k -> Vals]

Tuples == UNION {TuplesOf(k) : k \in Arities}

\* enum class invoke_it
invoke_it == {"once", "again"}

OpNames == {"fire_once", "fire_again", "reset", "release", "release_all",
            "moved_from", "write", "read", "get_deleter"}

\* The operations that can arm an instance again, and those that give up
\* the clean-up without running it.
Kind(op) ==
    CASE op \in {"fire_again", "reset"} -> {"rearm"}
      [] op \in {"release", "release_all", "moved_from"} -> {"disarm"}
      [] OTHER -> {}

\* The mark a block leaves on the stack of automatic objects.
Block == 0

VARIABLES
    m_deleter,    \* [Inst -> Nat]     the deleter each instance holds (0: none yet)
    m_resource,   \* [Inst -> Tuples]  std::tuple<R...>
    m_bExecute,   \* [Inst -> BOOLEAN] the armed flag
    status,       \* [Inst -> {"unborn", "live", "dead"}]
    stack,        \* open blocks and their live instances, oldest first
    exiting,      \* TRUE while the innermost block is being left
    terminated,   \* std::terminate was called
    log,          \* the deleter calls made so far, in order
    ops,          \* [Inst -> SUBSET {"rearm", "disarm"}] kinds of operation applied
    last,         \* [Inst -> record] the most recent operation on the instance
    origin,       \* [Inst -> record] how the instance was made
    frames        \* the invoke() calls whose deleter is running, outermost first

vars == <<m_deleter, m_resource, m_bExecute, status, stack, exiting,
          terminated, log, ops, last, origin, frames>>

NoOp == [op |-> "none", armed |-> FALSE, ok |-> TRUE, arg |-> <<>>, ret |-> <<>>]

NoOrigin == [how |-> "none", from |-> 0, invalid |-> <<>>, at |-> 0]

Init ==
    /\ m_deleter = [i \in Inst |-> 0]
    /\ m_resource = [i \in Inst |-> <<>>]
    /\ m_bExecute = [i \in Inst |-> FALSE]
    /\ status = [i \in Inst |-> "unborn"]
    /\ stack = <<Block>>
    /\ exiting = FALSE
    /\ terminated = FALSE
    /\ log = <<>>
    /\ ops = [i \in Inst |-> {}]
    /\ last = [i \in Inst |-> NoOp]
    /\ origin = [i \in Inst |-> NoOrigin]
    /\ frames = <<>>

\* ------------------------------------------------------- the class, pure

\* The members after construction (lines 145-151).
Ctor(deleter, resource, bShouldRun) ==
    [m_deleter |-> deleter, m_resource |-> resource, m_bExecute |-> bShouldRun]

\* A move constructor that leaves the source as it was.
MovedFromExecuteKept(bExecute) == bExecute

\* A move constructor that arms its source.
MovedFromExecuteSet(bExecute) == TRUE

\* Line 128: what the move constructor leaves in other.m_bExecute.
MovedFromExecute(bExecute) == FALSE

\* A move constructor that arms the new instance whatever the source.
MoveCtorNewArmed(other) ==
    [m_deleter |-> other.m_deleter, m_resource |-> other.m_resource,
     m_bExecute |-> TRUE]

\* Lines 123-126: the members of the instance being move-constructed.
MoveCtorNew(other) ==
    [m_deleter |-> other.m_deleter, m_resource |-> other.m_resource,
     m_bExecute |-> other.m_bExecute]

\* An invoke() that never calls the deleter.
ShouldCallNever(bExecute) == FALSE

\* An invoke() that calls the deleter whatever the flag.
ShouldCallAlways(bExecute) == TRUE

\* An invoke() that calls the deleter exactly when the flag is clear.
ShouldCallInverted(bExecute) == ~bExecute

\* Line 274: does invoke() call the deleter?
ShouldCall(bExecute) == bExecute

\* An invoke() that leaves the flag set whatever the strategy.
ArmedAfterAlways(strategy) == TRUE

\* An invoke() that clears the flag whatever the strategy.
ArmedAfterNever(strategy) == FALSE

\* Line 280: m_bExecute after invoke() returns.
ArmedAfter(strategy) == strategy = "again"

\* Line 157: the strategy the destructor passes.
DtorStrategy == "once"

\* A reset that fires like the destructor does.
ResetStrategyOnce == "once"

\* Line 182: the strategy reset passes.
ResetStrategy == "again"

\* A release that leaves the flag set.
ReleasedExecuteKept == TRUE

\* Lines 166, 173: m_bExecute after release() and release_all().
ReleasedExecute == FALSE

\* A checked factory that ignores the sentinel.
CheckedShouldRunAlways(r, invalid) == TRUE

\* Line 303: the armed flag the checked factory passes.
CheckedShouldRun(r, invalid) == r /= invalid

\* Lines 33-57: Apply<N>::apply(f, t, a...) puts get<N-1>(t) in front of
\* a... and goes on with Apply<N-1>; Apply<0> makes the call f(a...).
RECURSIVE ApplyN(_, _, _, _)
ApplyN(N, f, t, a) ==
    IF N = 0
    THEN [del |-> f, args |-> a]
    ELSE ApplyN(N - 1, f, t, <<t[N]>> \o a)

\* An apply that hands over the elements of t last first.
ApplyReversed(deleter, resource) ==
    [del |-> deleter,
     args |-> [k \in 1..Len(resource) |-> resource[Len(resource) + 1 - k]]]

\* Lines 59-63: apply(f, t) starts with N = tuple_size<T> and no a.
Apply(deleter, resource) == ApplyN(Len(resource), deleter, resource, <<>>)

\* A store that lands in a copy of the first element.
StoredNowhere(resource, v) == resource

\* Lines 204-208, 253-257: a store through the reference or the address of
\* std::get<0>(m_resource).
Stored(resource, v) == [resource EXCEPT ![1] = v]

\* One entry of the log: the call made at line 278.
Call(i, via, ok) ==
    [inst |-> i, via |-> via, ok |-> ok,
     call |-> Apply(m_deleter[i], m_resource[i])]

Live(i) == status[i] = "live"

Depth == Len(SelectSeq(stack, LAMBDA k : k = Block))

Running == ~terminated /\ ~exiting /\ Depth >= 1

NextId == Cardinality({k \in Inst : status[k] /= "unborn"}) + 1

\* The calls instance i has made, in order.
CallsOf(i) == SelectSeq(log, LAMBDA e : e.inst = i)

Explicit(i) == Len(SelectSeq(log, LAMBDA e : e.inst = i /\ e.via /= "dtor"))

\* History: operation `op` was applied to instance i, which was armed or not
\* when it started; it completed normally (ok) or left by an exception.
Record(i, op, ok, arg, ret) ==
    /\ ops' = [ops EXCEPT ![i] = @ \cup Kind(op)]
    /\ last' = [last EXCEPT ![i] =
                  [op |-> op, armed |-> m_bExecute[i], ok |-> ok,
                   arg |-> arg, ret |-> ret]]

\* A new instance j with the given members enters the current block.
Construct(j, members, org) ==
    /\ m_deleter' = [m_deleter EXCEPT ![j] = members.m_deleter]
    /\ m_resource' = [m_resource EXCEPT ![j] = members.m_resource]
    /\ status' = [status EXCEPT ![j] = "live"]
    /\ stack' = Append(stack, j)
    /\ origin' = [origin EXCEPT ![j] = org]

\* The call a temporary makes when it is destroyed after being moved from.
TempCall(temp) ==
    [inst |-> 0, via |-> "dtor", ok |-> TRUE,
     call |-> Apply(temp.m_deleter, temp.m_resource)]

\* ------------------------------------------------------------ factories

\* make_scoped_resource(t, r...) (lines 289-293) makes instance j.  The
\* prvalue is either constructed in place or move-constructed from a
\* temporary, which is then destroyed.
make_scoped_resource(j, r) ==
    /\ Running
    /\ j = NextId
    /\ \E elide \in BOOLEAN :
         LET temp == Ctor(j, r, TRUE)
             new == IF elide THEN temp ELSE MoveCtorNew(temp)
             tempFires == ~elide /\ ShouldCall(MovedFromExecute(temp.m_bExecute))
         IN /\ Construct(j, new,
                 [how |-> "make", from |-> 0, invalid |-> <<>>, at |-> Len(log)])
            /\ m_bExecute' = [m_bExecute EXCEPT ![j] = new.m_bExecute]
            /\ log' = IF tempFires THEN Append(log, TempCall(temp)) ELSE log
    /\ UNCHANGED <<frames, exiting, terminated, ops, last>>

\* make_scoped_resource_checked(t, r, invalid) (lines 300-304).
make_scoped_resource_checked(j, r, invalid) ==
    /\ Running
    /\ j = NextId
    /\ \E elide \in BOOLEAN :
         LET temp == Ctor(j, <<r>>, CheckedShouldRun(r, invalid))
             new == IF elide THEN temp ELSE MoveCtorNew(temp)
             tempFires == ~elide /\ ShouldCall(MovedFromExecute(temp.m_bExecute))
         IN /\ Construct(j, new,
                 [how |-> "checked", from |-> 0, invalid |-> <<invalid>>,
                  at |-> Len(log)])
            /\ m_bExecute' = [m_bExecute EXCEPT ![j] = new.m_bExecute]
            /\ log' = IF tempFires THEN Append(log, TempCall(temp)) ELSE log
    /\ UNCHANGED <<frames, exiting, terminated, ops, last>>

\* auto y = std::move(x): the move constructor (lines 123-129) makes j.
MoveConstruct(j, x) ==
    /\ Running
    /\ Live(x)
    /\ j = NextId
    /\ j \in Inst
    /\ LET other == Ctor(m_deleter[x], m_resource[x], m_bExecute[x])
           new == MoveCtorNew(other)
       IN /\ Construct(j, new,
               [how |-> "move", from |-> x, invalid |-> <<>>, at |-> Len(log)])
          /\ m_bExecute' = [m_bExecute EXCEPT ![j] = new.m_bExecute,
                                              ![x] = MovedFromExecute(other.m_bExecute)]
    /\ Record(x, "moved_from", TRUE, <<>>, <<>>)
    /\ UNCHANGED <<frames, exiting, terminated, log>>

\* ----------------------------------------------------------- operations

\* operator()(how) / invoke(how) called by the user (lines 192-195, 272-282).
\* If the deleter throws, line 280 is not reached and the caller sees the
\* exception.
Fire(i, how, ok) ==
    /\ Running
    /\ Live(i)
    /\ LET calls == ShouldCall(m_bExecute[i])
       IN /\ calls => Explicit(i) < MaxFire
          /\ ok \/ calls
          /\ log' = IF calls THEN Append(log, Call(i, "fire", ok)) ELSE log
          /\ m_bExecute' = IF calls /\ ~ok
                           THEN m_bExecute
                           ELSE [m_bExecute EXCEPT ![i] = ArmedAfter(how)]
    /\ Record(i, IF how = "once" THEN "fire_once" ELSE "fire_again", ok, <<>>, <<>>)
    /\ UNCHANGED <<frames, m_deleter, m_resource, status, stack, exiting, terminated,
                   origin>>

\* reset(r) (lines 178-188).  std::move(resource...) at line 186 takes
\* exactly one argument, so reset exists for single-resource bindings only.
Reset(i, r, ok) ==
    /\ Running
    /\ Live(i)
    /\ Len(m_resource[i]) = 1
    /\ LET calls == ShouldCall(m_bExecute[i])
           thrown == calls /\ ~ok
       IN /\ calls => Explicit(i) < MaxFire
          /\ ok \/ calls
          /\ log' = IF calls THEN Append(log, Call(i, "reset", ok)) ELSE log
          /\ m_bExecute' = IF thrown
                           THEN m_bExecute
                           ELSE [m_bExecute EXCEPT ![i] = ArmedAfter(ResetStrategy)]
          /\ m_resource' = IF thrown
                           THEN m_resource
                           ELSE [m_resource EXCEPT ![i] = r]
    /\ Record(i, "reset", ok, r, <<>>)
    /\ UNCHANGED <<frames, m_deleter, status, stack, exiting, terminated, origin>>

\* release() (lines 164-168): the first resource, or a default bool.
Release(i) ==
    /\ Running
    /\ Live(i)
    /\ m_bExecute' = [m_bExecute EXCEPT ![i] = ReleasedExecute]
    /\ Record(i, "release", TRUE, <<>>, <<(m_resource[i] \o <<FALSE>>)[1]>>)
    /\ UNCHANGED <<frames, m_deleter, m_resource, status, stack, exiting, terminated,
                   log, origin>>

\* release_all() (lines 170-175).
ReleaseAll(i) ==
    /\ Running
    /\ Live(i)
    /\ m_bExecute' = [m_bExecute EXCEPT ![i] = ReleasedExecute]
    /\ Record(i, "release_all", TRUE, <<>>, m_resource[i])
    /\ UNCHANGED <<frames, m_deleter, m_resource, status, stack, exiting, terminated,
                   log, origin>>

\* A store through operator& (lines 253-257) or the reference get<0>()
\* returns (lines 204-208).
Write(i, v) ==
    /\ Running
    /\ Live(i)
    /\ Len(m_resource[i]) >= 1
    /\ m_resource' = [m_resource EXCEPT ![i] = Stored(@, v)]
    /\ Record(i, "write", TRUE, <<v>>, <<>>)
    /\ UNCHANGED <<frames, m_deleter, m_bExecute, status, stack, exiting, terminated,
                   log, origin>>

\* get<0>() const and the conversion operator (lines 198-216).
Read(i) ==
    /\ Running
    /\ Live(i)
    /\ Len(m_resource[i]) >= 1
    /\ Record(i, "read", TRUE, <<>>, <<m_resource[i][1]>>)
    /\ UNCHANGED <<frames, m_deleter, m_resource, m_bExecute, status, stack, exiting,
                   terminated, log, origin>>

\* get_deleter() (lines 260-268).
GetDeleter(i) ==
    /\ Running
    /\ Live(i)
    /\ Record(i, "get_deleter", TRUE, <<>>, <<m_deleter[i]>>)
    /\ UNCHANGED <<frames, m_deleter, m_resource, m_bExecute, status, stack,
                   exiting, terminated, log, origin>>

\* ---------------------------------------------------------------- blocks

\* A nested block or a called function (s1, s2 of hello.cpp) is entered.
EnterScope ==
    /\ Running
    /\ Depth < MaxDepth
    /\ stack' = Append(stack, Block)
    /\ UNCHANGED <<frames, m_deleter, m_resource, m_bExecute, status, exiting,
                   terminated, log, ops, last, origin>>

\* Control reaches the end of the innermost block.
BeginExit ==
    /\ Running
    /\ exiting' = TRUE
    /\ UNCHANGED <<frames, m_deleter, m_resource, m_bExecute, status, stack,
                   terminated, log, ops, last, origin>>

\* Automatic objects are destroyed in reverse order of construction.
NextToDestroy == stack[Len(stack)]

\* ~scoped_resource() (lines 155-158) of the youngest instance of the block
\* being left.  The destructor is noexcept: a deleter that throws ends the
\* program.
Destroy(ok) ==
    /\ exiting
    /\ ~terminated
    /\ NextToDestroy /= Block
    /\ LET i == NextToDestroy
           calls == ShouldCall(m_bExecute[i])
           thrown == calls /\ ~ok
       IN /\ Live(i)
          /\ ok \/ calls
          /\ log' = IF calls THEN Append(log, Call(i, "dtor", ok)) ELSE log
          /\ terminated' = thrown
          /\ m_bExecute' = IF thrown
                           THEN m_bExecute
                           ELSE [m_bExecute EXCEPT ![i] = ArmedAfter(DtorStrategy)]
          /\ status' = IF thrown THEN status ELSE [status EXCEPT ![i] = "dead"]
          /\ stack' = IF thrown THEN stack
                      ELSE SelectSeq(stack, LAMBDA k : k /= i)
    /\ UNCHANGED <<frames, m_deleter, m_resource, exiting, ops, last, origin>>

\* Every instance of the block is gone: the block is left.
EndExit ==
    /\ exiting
    /\ ~terminated
    /\ NextToDestroy = Block
    /\ stack' = SubSeq(stack, 1, Len(stack) - 1)
    /\ exiting' = FALSE
    /\ UNCHANGED <<frames, m_deleter, m_resource, m_bExecute, status, terminated, log,
                   ops, last, origin>>

\* ------------------------------------------- invoke(), statement by statement

\* invoke() in its steps, for a deleter that uses the instance it belongs
\* to: the test of line 274 and the call of line 278 begin here, the deleter
\* then runs, and line 280 is reached only when the deleter has returned.
\* While the deleter runs it may call operator() of the same instance.

\* The innermost invoke() whose deleter is running.
Top == frames[Len(frames)]

\* The deleter of instance i is entered from `via` (lines 274-278).
Enter(i, via, how) ==
    /\ Len(frames) < MaxNest
    /\ log' = Append(log, Call(i, via, TRUE))
    /\ frames' = Append(frames,
                        [inst |-> i, via |-> via, how |-> how, at |-> Len(log) + 1])
    /\ UNCHANGED m_bExecute

\* operator()(how) (lines 192-195) is called by the program, or by the
\* deleter that is running.
Invoke(i, how) ==
    /\ ~terminated
    /\ Live(i)
    /\ IF frames = <<>> THEN Running ELSE Top.inst = i
    /\ IF ShouldCall(m_bExecute[i])
       THEN /\ Explicit(i) < MaxFire + Len(frames)
            /\ Enter(i, "fire", how)
       ELSE /\ m_bExecute' = [m_bExecute EXCEPT ![i] = ArmedAfter(how)]
            /\ UNCHANGED <<log, frames>>
    /\ Record(i, IF how = "once" THEN "fire_once" ELSE "fire_again", TRUE, <<>>, <<>>)
    /\ UNCHANGED <<m_deleter, m_resource, status, stack, exiting, terminated,
                   origin>>

\* ~scoped_resource() (lines 155-158) begins for the youngest instance of
\* the block being left; with the flag clear it is over at once.
DtorBegin ==
    /\ exiting
    /\ ~terminated
    /\ frames = <<>>
    /\ NextToDestroy /= Block
    /\ LET i == NextToDestroy
       IN /\ Live(i)
          /\ IF ShouldCall(m_bExecute[i])
             THEN /\ Enter(i, "dtor", DtorStrategy)
                  /\ UNCHANGED <<status, stack>>
             ELSE /\ m_bExecute' = [m_bExecute EXCEPT ![i] = ArmedAfter(DtorStrategy)]
                  /\ status' = [status EXCEPT ![i] = "dead"]
                  /\ stack' = SelectSeq(stack, LAMBDA k : k /= i)
                  /\ UNCHANGED <<log, frames>>
    /\ UNCHANGED <<m_deleter, m_resource, exiting, terminated, ops, last, origin>>

\* The running deleter returns: line 280, and the destructor is done.
DeleterReturns ==
    /\ ~terminated
    /\ frames /= <<>>
    /\ LET i == Top.inst
           dtor == Top.via = "dtor"
       IN /\ m_bExecute' = [m_bExecute EXCEPT ![i] = ArmedAfter(Top.how)]
          /\ status' = IF dtor THEN [status EXCEPT ![i] = "dead"] ELSE status
          /\ stack' = IF dtor THEN SelectSeq(stack, LAMBDA k : k /= i) ELSE stack
    /\ frames' = SubSeq(frames, 1, Len(frames) - 1)
    /\ UNCHANGED <<m_deleter, m_resource, exiting, terminated, log, ops, last,
                   origin>>

\* The running deleter throws: line 280 is skipped.  The exception reaches
\* the caller of operator(), which is the program or the deleter one level
\* out; out of the destructor it ends the program.
DeleterThrows ==
    /\ ~terminated
    /\ frames /= <<>>
    /\ log' = [log EXCEPT ![Top.at].ok = FALSE]
    /\ last' = IF Top.via = "dtor" THEN last
               ELSE [last EXCEPT ![Top.inst].ok = FALSE]
    /\ terminated' = (Top.via = "dtor")
    /\ frames' = SubSeq(frames, 1, Len(frames) - 1)
    /\ UNCHANGED <<m_deleter, m_resource, m_bExecute, status, stack, exiting,
                   ops, origin>>

\* ------------------------------------------------------- specifications

\* One instance in one block, every operation.
Next ==
    \/ \E r \in Tuples : make_scoped_resource(1, r)
    \/ \E r \in Vals, invalid \in Vals : make_scoped_resource_checked(1, r, invalid)
    \/ Release(1)
    \/ ReleaseAll(1)
    \/ \E how \in invoke_it, ok \in BOOLEAN : Fire(1, how, ok)
    \/ \E r \in TuplesOf(1), ok \in BOOLEAN : Reset(1, r, ok)
    \/ \E v \in Vals : Write(1, v)
    \/ Read(1)
    \/ GetDeleter(1)
    \/ BeginExit
    \/ \E ok \in BOOLEAN : Destroy(ok)
    \/ EndExit

Spec == Init /\ [][Next]_vars

\* Two instances in nested blocks: factories for single-resource bindings,
\* moves, the disarming operations and the destructors.
NextScope ==
    \/ \E j \in Inst, r \in TuplesOf(1) : make_scoped_resource(j, r)
    \/ \E j \in Inst, r \in Vals, invalid \in Vals :
          make_scoped_resource_checked(j, r, invalid)
    \/ \E j \in Inst, x \in Inst : MoveConstruct(j, x)
    \/ \E i \in Inst : Fire(i, "once", TRUE)
    \/ \E i \in Inst : Release(i)
    \/ \E i \in Inst : ReleaseAll(i)
    \/ EnterScope
    \/ BeginExit
    \/ \E ok \in BOOLEAN : Destroy(ok)
    \/ EndExit

SpecScope == Init /\ [][NextScope]_vars

\* One instance whose deleter may call operator() of the instance itself.
NextReentrant ==
    \/ \E r \in Tuples : frames = <<>> /\ make_scoped_resource(1, r)
    \/ \E how \in invoke_it : Invoke(1, how)
    \/ DeleterReturns
    \/ DeleterThrows
    \/ frames = <<>> /\ Release(1)
    \/ frames = <<>> /\ BeginExit
    \/ DtorBegin
    \/ frames = <<>> /\ EndExit

SpecReentrant == Init /\ [][NextReentrant]_vars

\* ------------------------------------------------------------- properties

\* The destructor of instance i runs in this step: it completes, or its
\* deleter throws and the program ends.
DtorRuns(i) ==
    /\ Live(i)
    /\ \/ status'[i] = "dead"
       \/ ~terminated /\ terminated' /\ NextToDestroy = i

\* The lifetime of instance i is over.
Ended(i) == status[i] = "dead" \/ (terminated /\ Live(i) /\ NextToDestroy = i)

\* The calls of instance i that returned normally.
Returned(i) == SelectSeq(CallsOf(i), LAMBDA e : e.ok)

\* The position in the log of the call the destructor of i made (0: none).
DtorPos(i) ==
    LET at == {p \in 1..Len(log) : log[p].inst = i /\ log[p].via = "dtor"}
    IN IF at = {} THEN 0 ELSE CHOOSE p \in at : TRUE

C2_AtMostOnce ==
    \A i \in Inst :
        "rearm" \notin ops[i] =>
            /\ Len(CallsOf(i)) <= 1
            /\ (status[i] = "dead" /\ last[i].op = "fire_once" /\ last[i].armed)
                   => Len(CallsOf(i)) = 1

\* C3: reset is the only operation that takes an instance from disarmed to
\* armed; in particular a fire with either strategy leaves a disarmed
\* instance disarmed.
C3_OnlyResetRearms ==
    [][\A i \in Inst :
          (Live(i) /\ ~m_bExecute[i] /\ status'[i] = "live" /\ m_bExecute'[i])
              => last'[i].op = "reset"]_vars

\* C4: a destructor that runs right after release, release_all or fire(once)
\* does not invoke the disposer.
C4_DisarmSuppresses ==
    [][\A i \in Inst :
          (DtorRuns(i) /\ last[i].op \in {"release", "release_all", "fire_once"})
              => log' = log]_vars

\* C5: a failure of the disposer is swallowed: every operation completes
\* normally, the program is not ended, and the armed flag ends up as the
\* strategy dictates.
C5_FailureSwallowed ==
    /\ ~terminated
    /\ \A i \in Inst :
          /\ last[i].ok
          /\ (Live(i) /\ last[i].op = "fire_once") => ~m_bExecute[i]
          /\ (Live(i) /\ last[i].op \in {"fire_again", "reset"}) => m_bExecute[i]

\* C6: reset(r') on an armed instance followed by destruction gives the call
\* d(r) during the reset and then the call d(r') by the destructor.
C6_ResetThenDestroy ==
    \A i \in Inst :
        (Ended(i) /\ last[i].op = "reset" /\ last[i].armed) =>
            LET c == CallsOf(i)
                n == Len(c)
            IN /\ n >= 2
               /\ c[n - 1].via = "reset"
               /\ c[n].via = "dtor"
               /\ c[n].call.args = last[i].arg

\* reset(r') is applied to instance i in this step, and returns or throws.
ResetRuns(i) ==
    /\ Live(i)
    /\ status'[i] = "live"
    /\ ~terminated'
    /\ last'[i].op = "reset"
    /\ \/ last'[i] /= last[i]
       \/ Len(log') = Len(log) + 1 /\ log'[Len(log')].inst = i

\* C7: reset leaves the instance armed whatever its state before; on a
\* disarmed instance it makes no call and stores r', and a destructor that
\* runs right after it makes exactly one call, with r'.
C7_ResetArms ==
    [][\A i \in Inst :
          /\ ResetRuns(i) =>
                /\ m_bExecute'[i]
                /\ ~m_bExecute[i] =>
                      (log' = log /\ m_resource'[i] = last'[i].arg)
          /\ (DtorRuns(i) /\ last[i].op = "reset" /\ ~last[i].armed) =>
                /\ Len(log') = Len(log) + 1
                /\ SubSeq(log', 1, Len(log)) = log
                /\ log'[Len(log')].inst = i
                /\ log'[Len(log')].via = "dtor"
                /\ log'[Len(log')].call.args = last[i].arg]_vars

\* An instance the checked factory made disarmed was reset and destroyed:
\* its only call is the destructor's, with the value reset stored.
C7_Witness ==
    /\ status[1] = "dead"
    /\ origin[1].how = "checked"
    /\ m_resource[1] /= origin[1].invalid
    /\ last[1].op = "reset"
    /\ ~last[1].armed
    /\ Len(CallsOf(1)) = 1
    /\ CallsOf(1)[1].via = "dtor"
    /\ CallsOf(1)[1].call.args = last[1].arg

\* C8: an instance of the checked factory that is destroyed with no operation
\* in between invokes the disposer once, with r, if r differs from the
\* sentinel, and not at all if r equals it.
C8_CheckedFactory ==
    \A i \in Inst :
        (Ended(i) /\ origin[i].how = "checked" /\ last[i].op = "none") =>
            IF m_resource[i] /= origin[i].invalid
            THEN /\ Len(CallsOf(i)) = 1
                 /\ CallsOf(i)[1].via = "dtor"
                 /\ CallsOf(i)[1].call.args = m_resource[i]
            ELSE CallsOf(i) = <<>>

\* The checked factory was given the sentinel itself and the instance was
\* destroyed: no call.
C8_Witness ==
    /\ status[1] = "dead"
    /\ origin[1].how = "checked"
    /\ last[1].op = "none"
    /\ m_resource[1] = origin[1].invalid
    /\ log = <<>>

\* C9: moving an armed instance x into y and then destroying both, with no
\* other operation on either, disarms x and arms y; the destructor of y
\* makes the one call, with the deleter and the values x held, and the
\* destructor of x makes none.
C9_MoveTransfers ==
    \A y \in Inst :
        LET x == origin[y].from
            since == {p \in 1..Len(log) : p > origin[y].at}
        IN (/\ origin[y].how = "move"
            /\ last[x].op = "moved_from"
            /\ last[x].armed
            /\ last[y].op = "none") =>
               /\ Live(x) => ~m_bExecute[x]
               /\ Live(y) => m_bExecute[y]
               /\ \A p \in since : log[p].inst = y
               /\ Ended(y) =>
                     /\ Len(CallsOf(y)) = 1
                     /\ CallsOf(y)[1].via = "dtor"
                     /\ CallsOf(y)[1].call = Apply(m_deleter[x], m_resource[x])
               /\ status[x] = "dead" => Cardinality(since) = 1

\* An armed instance 1 was moved into instance 2 and both were destroyed:
\* the log holds the one call, made by the destructor of instance 2.
C9_Witness ==
    /\ status[1] = "dead"
    /\ status[2] = "dead"
    /\ origin[2].how = "move"
    /\ origin[2].from = 1
    /\ last[1].op = "moved_from"
    /\ last[1].armed
    /\ last[2].op = "none"
    /\ Len(log) = 1
    /\ log[1].inst = 2

\* C10: when the destructor of an instance runs, every instance made after
\* it has already been destroyed, and the destructor makes its call exactly
\* if the instance is armed: of two armed instances A then B, B fires first,
\* and an instance of an outer block fires after those of the inner blocks.
C10_Lifo ==
    [][\A a \in Inst :
          DtorRuns(a) =>
              /\ \A b \in Inst : b > a => ~Live(b)
              /\ IF m_bExecute[a]
                 THEN /\ Len(log') = Len(log) + 1
                      /\ SubSeq(log', 1, Len(log)) = log
                      /\ log'[Len(log')].inst = a
                      /\ log'[Len(log')].via = "dtor"
                 ELSE log' = log]_vars

\* Instance 2 was made while instance 1 was live, both stayed armed, and
\* both destructors have fired: that of instance 2 first.
C10_Witness ==
    /\ status[1] = "dead"
    /\ status[2] = "dead"
    /\ origin[1].how = "make"
    /\ origin[2].how = "make"
    /\ DtorPos(2) > 0
    /\ DtorPos(1) > DtorPos(2)
    /\ DtorPos(1) > origin[2].at

\* operator()(how) is applied to instance i in this step, and returns or
\* throws.
FireRuns(i) ==
    /\ Live(i)
    /\ status'[i] = "live"
    /\ ~terminated'
    /\ last'[i].op \in {"fire_once", "fire_again"}
    /\ \/ last'[i] /= last[i]
       \/ Len(log') = Len(log) + 1 /\ log'[Len(log')].inst = i

\* This step adds exactly one call to the log: instance i calls its deleter
\* with its stored values from `via`.
OneCall(i, via) ==
    /\ Len(log') = Len(log) + 1
    /\ SubSeq(log', 1, Len(log)) = log
    /\ log'[Len(log')].inst = i
    /\ log'[Len(log')].via = via
    /\ log'[Len(log')].call.del = m_deleter[i]
    /\ log'[Len(log')].call.args = m_resource[i]

\* The last call instance i made is the one its previous call was.
SameAsBefore(i) ==
    LET c == SelectSeq(log', LAMBDA e : e.inst = i)
    IN Len(c) >= 2 /\ c[Len(c)].call = c[Len(c) - 1].call

ReleaseRuns(i) ==
    /\ Live(i)
    /\ last'[i].op \in {"release", "release_all"}
    /\ last'[i] /= last[i]

\* C12: release and release_all clear the armed flag, make no call and leave
\* the stored values and the deleter as they were, armed or not before;
\* release returns the first stored value, or the boolean placeholder FALSE
\* when there is none, and release_all returns the whole tuple.
C12_Release ==
    [][\A i \in Inst :
          ReleaseRuns(i) =>
              /\ ~m_bExecute'[i]
              /\ log' = log
              /\ m_resource' = m_resource
              /\ m_deleter' = m_deleter
              /\ last'[i].ok
              /\ last'[i].ret =
                    IF last'[i].op = "release_all" THEN m_resource[i]
                    ELSE IF Len(m_resource[i]) = 0 THEN <<FALSE>>
                    ELSE <<m_resource[i][1]>>]_vars

\* release was applied to an armed instance that holds no resource and the
\* instance was destroyed: the placeholder was returned and no call made.
C12_Witness ==
    /\ status[1] = "dead"
    /\ last[1].op = "release"
    /\ last[1].armed
    /\ m_resource[1] = <<>>
    /\ last[1].ret = <<FALSE>>
    /\ log = <<>>

\* C13: every call passes exactly the stored values, all of them, in the
\* order of construction: each entry a step adds to the log has as many
\* arguments as the instance holds values (none for an empty binding), and
\* its k-th argument is the k-th stored value.  The call a factory's
\* temporary makes passes the values the factory was given.
C13_Arguments ==
    [][/\ Len(log') >= Len(log)
       /\ \A p \in (Len(log) + 1)..Len(log') :
             LET e == log'[p]
                 stored == IF e.inst = 0 THEN m_resource'[NextId]
                           ELSE m_resource[e.inst]
                 deleter == IF e.inst = 0 THEN m_deleter'[NextId]
                            ELSE m_deleter[e.inst]
             IN /\ e.call.del = deleter
                /\ Len(e.call.args) = Len(stored)
                /\ \A k \in 1..Len(stored) : e.call.args[k] = stored[k]]_vars

\* An instance that holds the two values (0, 1) has made the call d(0, 1).
C13_Witness ==
    /\ m_resource[1] = <<0, 1>>
    /\ Len(CallsOf(1)) >= 1
    /\ CallsOf(1)[1].call.args = <<0, 1>>
    /\ CallsOf(1)[1].ok

\* C14: make_scoped_resource returns an armed instance and no call is made
\* on the way: the temporary of the factory never calls the deleter, and an
\* instance on which nothing but reads and writes were done is armed and has
\* made no call for as long as it lives; when its lifetime is over it has
\* made one call, from its destructor.
C14_FactoryDefers ==
    /\ \A p \in 1..Len(log) : log[p].inst /= 0
    /\ \A i \in Inst :
          (/\ origin[i].how = "make"
           /\ ops[i] = {}
           /\ last[i].op \in {"none", "read", "write"}
           /\ Explicit(i) = 0) =>
              /\ (Live(i) /\ ~Ended(i)) =>
                    (m_bExecute[i] /\ CallsOf(i) = <<>>)
              /\ Ended(i) =>
                    /\ Len(CallsOf(i)) = 1
                    /\ CallsOf(i)[1].via = "dtor"
                    /\ DtorPos(i) > origin[i].at

\* As s1 of hello.cpp: an instance with no resource was made, and at the
\* end of the block its destructor made the first and only call.
C14_Witness ==
    /\ status[1] = "dead"
    /\ origin[1].how = "make"
    /\ last[1].op = "none"
    /\ m_resource[1] = <<>>
    /\ Len(log) = 1
    /\ log[1].inst = 1
    /\ log[1].via = "dtor"
    /\ log[1].ok

\* C15: operator() on a disarmed instance, with either strategy, makes no
\* call and returns normally, and leaves the stored values and the deleter
\* as they were.
C15_FireDisarmed ==
    [][\A i \in Inst :
          (FireRuns(i) /\ ~m_bExecute[i]) =>
              /\ log' = log
              /\ last'[i].ok
              /\ m_resource' = m_resource
              /\ m_deleter' = m_deleter]_vars

\* The checked factory was given its sentinel and the instance was then
\* fired with strategy once: no call.
C15_Witness ==
    /\ Live(1)
    /\ origin[1].how = "checked"
    /\ m_resource[1] = origin[1].invalid
    /\ last[1].op = "fire_once"
    /\ ~last[1].armed
    /\ last[1].ok
    /\ log = <<>>

\* C16: a firing is one step with respect to the armed flag: while the
\* deleter entered by fire(once) or by the destructor is running the flag
\* is already clear, so operator() called from inside it makes no second
\* call; and once a fire(once) is over, by return or by exception, the flag
\* is clear, so a destructor that follows makes no second call.
C16_AtomicFiring ==
    /\ \A k \in 1..Len(frames) :
          frames[k].how = "once" =>
              /\ ~m_bExecute[frames[k].inst]
              /\ \A p \in (frames[k].at + 1)..Len(log) :
                    log[p].inst /= frames[k].inst
    /\ \A i \in Inst :
          (Live(i) /\ frames = <<>> /\ last[i].op = "fire_once")
              => ~m_bExecute[i]

\* C17: the move constructor gives the new instance the flag the source had
\* when it was moved from: y is armed exactly if x was, and when x was
\* disarmed neither x nor y makes a call afterwards, their destructors
\* included.
C17_MoveCarriesFlag ==
    \A y \in Inst :
        LET x == origin[y].from
            since == {p \in 1..Len(log) : p > origin[y].at}
        IN (/\ origin[y].how = "move"
            /\ last[x].op = "moved_from"
            /\ last[y].op = "none") =>
               /\ Live(y) => (m_bExecute[y] <=> last[x].armed)
               /\ ~last[x].armed =>
                     /\ Live(x) => ~m_bExecute[x]
                     /\ \A p \in since : log[p].inst \notin {x, y}

\* The checked factory was given its sentinel, the disarmed instance 1 was
\* moved into instance 2, and both were destroyed: no call at all.
C17_Witness ==
    /\ status[1] = "dead"
    /\ status[2] = "dead"
    /\ origin[1].how = "checked"
    /\ m_resource[1] = origin[1].invalid
    /\ origin[2].how = "move"
    /\ origin[2].from = 1
    /\ last[1].op = "moved_from"
    /\ ~last[1].armed
    /\ last[2].op = "none"
    /\ log = <<>>

\* operator(), reset or the destructor is applied in this step to instance
\* i, which is armed when it starts.
ArmedCallRuns(i) ==
    /\ m_bExecute[i]
    /\ FireRuns(i) \/ ResetRuns(i) \/ DtorRuns(i)

\* C18: the deleter is called only inside operator(), reset and the
\* destructor, once in each that starts with the instance armed and not at
\* all in one that starts with it disarmed; every other step (release,
\* release_all, the accessors, get_deleter, the factories) adds no call.  So
\* the number of calls is always the number of operator(), reset and
\* destructor calls that started armed.
C18_CallCount ==
    [][\A i \in Inst :
          IF ArmedCallRuns(i)
          THEN /\ Len(log') = Len(log) + 1
               /\ SubSeq(log', 1, Len(log)) = log
               /\ log'[Len(log')].inst = i
          ELSE SelectSeq(log', LAMBDA e : e.inst = i) = CallsOf(i)]_vars

\* An armed instance was fired with strategy again, then released while
\* armed, and destroyed: one call, made by the fire.
C18_Witness ==
    /\ status[1] = "dead"
    /\ origin[1].how = "make"
    /\ "rearm" \in ops[1]
    /\ last[1].op = "release"
    /\ last[1].armed
    /\ Len(log) = 1
    /\ log[1].via = "fire"

\* get<0>() const or the conversion operator is applied to instance i in
\* this step.
ReadRuns(i) == Live(i) /\ last'[i].op = "read" /\ last'[i] /= last[i]

\* A value is stored through operator& or get<0>() of instance i in this
\* step.
WriteRuns(i) == Live(i) /\ last'[i].op = "write" /\ last'[i] /= last[i]

\* C19: a read yields the first stored value and changes neither the flag
\* nor the calls made; a write puts the written value in the place of the
\* first stored value, leaves the others and the flag alone and makes no
\* call; and the call or the release that comes right after a write passes
\* or returns the written value.
C19_Accessors ==
    [][\A i \in Inst :
          /\ ReadRuns(i) =>
                /\ last'[i].ret = <<m_resource[i][1]>>
                /\ m_resource' = m_resource
                /\ m_bExecute' = m_bExecute
                /\ log' = log
          /\ WriteRuns(i) =>
                /\ m_resource'[i][1] = last'[i].arg[1]
                /\ Len(m_resource'[i]) = Len(m_resource[i])
                /\ \A k \in 2..Len(m_resource[i]) :
                      m_resource'[i][k] = m_resource[i][k]
                /\ m_bExecute' = m_bExecute
                /\ log' = log
          /\ (Live(i) /\ last[i].op = "write") =>
                /\ \A p \in (Len(log) + 1)..Len(log') :
                      log'[p].inst = i => log'[p].call.args[1] = last[i].arg[1]
                /\ ReleaseRuns(i) => last'[i].ret[1] = last[i].arg[1]]_vars

\* An instance that held 0 was fired with strategy again, 1 was then
\* written into it, and its destructor ran: the calls d(0) and d(1).
C19_Witness ==
    /\ status[1] = "dead"
    /\ last[1].op = "write"
    /\ last[1].arg = <<1>>
    /\ Len(CallsOf(1)) = 2
    /\ CallsOf(1)[1].call.args = <<0>>
    /\ CallsOf(1)[2].via = "dtor"
    /\ CallsOf(1)[2].call.args = <<1>>

====
